---- MODULE Spec2Model ----
(***************************************************************************)
(* A model of the XMTP docs MCP server (src/src/index.ts): the document   *)
(* is loaded once, split into chunks by one pass over its lines, indexed  *)
(* by chunk id, and then served through two tools, search_xmtp_docs and   *)
(* get_xmtp_doc_chunk.                                                     *)
(*                                                                         *)
(* A JavaScript string is a sequence of one-character strings (one per    *)
(* UTF-16 code unit), so that length, slicing, trimming, splitting and    *)
(* the heading pattern are computed as the code computes them.  A score   *)
(* is kept in quarters (score4 = 4 * score): every score of the code is a *)
(* whole number plus a multiple of 0.25, which floating point represents  *)
(* exactly.                                                                *)
(***************************************************************************)
EXTENDS Integers, Sequences, FiniteSets, TLC

-----------------------------------------------------------------------------
(* Characters *)

LF == "\n"
CR == "\r"
TAB == "\t"
\* U+2026 HORIZONTAL ELLIPSIS, one UTF-16 code unit
Ellipsis == "U+2026"

\* the characters the model's inputs use that JavaScript's \s and trim() treat
\* as white space
IsSpace(c) == c \in {" ", TAB, LF, CR}

\* the characters "." of a regular expression does not match
IsLineTerminator(c) == c \in {LF, CR}

Upper == <<"A", "B", "C", "D", "E", "F", "G", "H", "I", "J", "K", "L", "M",
           "N", "O", "P", "Q", "R", "S", "T", "U", "V", "W", "X", "Y", "Z">>
Lower == <<"a", "b", "c", "d", "e", "f", "g", "h", "i", "j", "k", "l", "m",
           "n", "o", "p", "q", "r", "s", "t", "u", "v", "w", "x", "y", "z">>

\* String.prototype.toLowerCase, one character
LowerChar(c) ==
    IF \E i \in 1..Len(Upper) : Upper[i] = c
    THEN Lower[CHOOSE i \in 1..Len(Upper) : Upper[i] = c]
    ELSE c

\* a slip: the case left as it is
SameCase(s) == s

\* String.prototype.toLowerCase
ToLowerCase(s) == [i \in 1..Len(s) |-> LowerChar(s[i])]

SetMin(S) == CHOOSE x \in S : \A y \in S : x <= y
SetMax(S) == CHOOSE x \in S : \A y \in S : x >= y

\* String.prototype.trim
Trim(s) ==
    LET keep == {i \in 1..Len(s) : ~IsSpace(s[i])}
    IN  IF keep = {} THEN <<>> ELSE SubSeq(s, SetMin(keep), SetMax(keep))

\* Array.prototype.join
RECURSIVE Join(_, _)
Join(parts, sep) ==
    IF Len(parts) = 0 THEN <<>>
    ELSE IF Len(parts) = 1 THEN parts[1]
    ELSE parts[1] \o sep \o Join(Tail(parts), sep)

\* text.split(/\r?\n/) from position `from` on: the leftmost match of \r?\n ends
\* the current line, and the rest is split after it
RECURSIVE SplitFrom(_, _)
SplitFrom(text, from) ==
    LET lfs == {p \in from..Len(text) : text[p] = LF}
    IN  IF lfs = {} THEN <<SubSeq(text, from, Len(text))>>
        ELSE LET lf == SetMin(lfs)
                 end == IF lf - 1 >= from /\ text[lf - 1] = CR THEN lf - 2 ELSE lf - 1
             IN  <<SubSeq(text, from, end)>> \o SplitFrom(text, lf + 1)

SplitLines(text) == SplitFrom(text, 1)

-----------------------------------------------------------------------------
(* The heading pattern /^(#{1,6})\s+(.+)\s*$/ *)

MaxHashes == 6

NoMatch == [matched |-> FALSE, title |-> <<>>]

\* line.match(...): every quantifier is greedy, so the match found first is the
\* one with the longest run of "#", then the longest \s+, then the longest (.+)
HeadingMatch(line) ==
    LET n  == Len(line)
        es(j) == {e \in (j + 1)..n :
                    /\ \A i \in (j + 1)..e : ~IsLineTerminator(line[i])
                    /\ \A i \in (e + 1)..n : IsSpace(line[i])}
        js(k) == {j \in (k + 1)..n :
                    /\ \A i \in (k + 1)..j : IsSpace(line[i])
                    /\ es(j) # {}}
        ks == {k \in 1..MaxHashes :
                    /\ k <= n
                    /\ \A i \in 1..k : line[i] = "#"
                    /\ js(k) # {}}
    IN  IF ks = {} THEN NoMatch
        ELSE LET k == SetMax(ks)
                 j == SetMax(js(k))
                 e == SetMax(es(j))
             IN  [matched |-> TRUE, title |-> SubSeq(line, j + 1, e)]

-----------------------------------------------------------------------------
(* Chunk ids *)

IdWidth == 5

Digits == <<"0", "1", "2", "3", "4", "5", "6", "7", "8", "9">>

\* String(n) for a natural number
RECURSIVE ToStr(_)
ToStr(n) == IF n < 10 THEN <<Digits[n + 1]>> ELSE ToStr(n \div 10) \o <<Digits[(n % 10) + 1]>>

\* String.prototype.padStart
RECURSIVE PadStart(_, _, _)
PadStart(s, width, c) == IF Len(s) >= width THEN s ELSE PadStart(<<c>> \o s, width, c)

Intro == <<"I", "n", "t", "r", "o">>
Untitled == <<"U", "n", "t", "i", "t", "l", "e", "d">>


-----------------------------------------------------------------------------
(* chunkMarkdownish *)

\* currentLines.join("\n").trim()
Body(currentLines) == Trim(Join(currentLines, <<LF>>))

\* a slip: the title without its fallback
TitleOfNoFallback(currentTitle) == Trim(currentTitle)

\* currentTitle.trim() || "Untitled"
TitleOf(currentTitle) == IF Trim(currentTitle) = <<>> THEN Untitled ELSE Trim(currentTitle)

\* a slip: the id without its padding
MakeIdUnpadded(n) == ToStr(n)

\* String(idx).padStart(5, "0")
MakeId(n) == PadStart(ToStr(n), IdWidth, "0")

\* a slip: idx incremented before the test for an empty body
FlushCountsEmpty(st, at) ==
    IF Body(st.currentLines) = <<>>
    THEN [st EXCEPT !.idx = @ + 1]
    ELSE [st EXCEPT
            !.chunks = Append(@, [id    |-> MakeId(st.idx),
                                  title |-> TitleOf(st.currentTitle),
                                  text  |-> Body(st.currentLines)]),
            !.emittedAt = Append(@, at),
            !.idx = @ + 1,
            !.currentLines = <<>>]

\* flush(), called while the pass is at line `at` (Len(lines) + 1 for the flush
\* after the loop).  st holds the closure's variables; emittedAt records, for
\* each chunk pushed, the position the pass was at when it was pushed.
Flush(st, at) ==
    IF Body(st.currentLines) = <<>>
    THEN st
    ELSE [st EXCEPT
            !.chunks = Append(@, [id    |-> MakeId(st.idx),
                                  title |-> TitleOf(st.currentTitle),
                                  text  |-> Body(st.currentLines)]),
            !.emittedAt = Append(@, at),
            !.idx = @ + 1,
            !.currentLines = <<>>]

-----------------------------------------------------------------------------
(* Inputs *)

\* the longest document of the enumerated ones, in lines
MaxLines == 3

H1 == <<"#", " ", "a", "b">>
H2 == <<"#", "#", " ", "b", " ">>
HBlank == <<"#", " ", " ">>
BodyAb == <<"a", "b">>
BodyBlank == <<" ">>
BodyHash == <<"#">>

LineSet == {H1, H2, HBlank, BodyAb, BodyBlank, BodyHash}

EnumDocs == {Join(ls, <<LF>>) : ls \in UNION {[1..n -> LineSet] : n \in 0..MaxLines}}

\* content, "# A", "## B", text
HeadingA == <<"#", " ", "A">>
HeadingB == <<"#", "#", " ", "B">>
ExampleLines == <<BodyAb, HeadingA, HeadingB, BodyAb>>
ExampleDoc == Join(ExampleLines, <<LF>>)

\* a document with CRLF line ends, a lone CR inside a heading and a line of
\* seven "#"
CrLfDoc == Join(<<BodyAb, H1, BodyAb, <<"#", " ", "a", CR, " ">>, BodyAb,
                  <<"#", "#", "#", "#", "#", "#", "#", " ", "b">>>>, <<CR, LF>>)

-----------------------------------------------------------------------------
(* scoreChunk *)

\* s.slice(from - 1, from - 1 + n) = t, for a non-empty t
OccursAt(s, t, from) == from + Len(t) - 1 <= Len(s) /\ SubSeq(s, from, from + Len(t) - 1) = t

\* hay.includes(token)
Includes(hay, token) == \E p \in 1..Len(hay) : OccursAt(hay, token, p)

\* hay.split(query).length - 1, for a non-empty query: the pieces are cut at the
\* leftmost occurrence, and the search goes on after its end
RECURSIVE SplitCount(_, _, _)
SplitCount(hay, query, from) ==
    LET found == {p \in from..Len(hay) : OccursAt(hay, query, p)}
    IN  IF found = {} THEN 0
        ELSE 1 + SplitCount(hay, query, SetMin(found) + Len(query))

\* query.split(/\s+/): a run of white space separates two pieces, and a run at
\* either end leaves an empty piece there
RECURSIVE SplitSpaces(_, _, _)
SplitSpaces(s, i, cur) ==
    IF i > Len(s) THEN <<cur>>
    ELSE IF IsSpace(s[i])
         THEN IF i < Len(s) /\ IsSpace(s[i + 1])
              THEN SplitSpaces(s, i + 1, cur)
              ELSE <<cur>> \o SplitSpaces(s, i + 1, <<>>)
    ELSE SplitSpaces(s, i + 1, Append(cur, s[i]))

NonEmpty(s) == s # <<>>

\* query.split(/\s+/).filter(Boolean)
Tokens(query) == SelectSeq(SplitSpaces(query, 1, <<>>), NonEmpty)

MinTokenLen == 2

\* a slip: the title left out of the text searched
HayTextOnly(chunk) == ToLowerCase(chunk.text)

\* (chunk.title + "\n" + chunk.text).toLowerCase()
Hay(chunk) == ToLowerCase(chunk.title \o <<LF>> \o chunk.text)

\* a slip: the occurrences counted wherever they start, overlapping or not
PhraseTermOverlapping(hay, query) ==
    IF Len(query) > 1 THEN Cardinality({p \in 1..Len(hay) : OccursAt(hay, query, p)}) ELSE 0

\* the first term of the score: the occurrences of the whole query
PhraseTerm(hay, query) == IF Len(query) > 1 THEN SplitCount(hay, query, 1) ELSE 0

\* a slip: a token repeated in the query counted once
TokenTerm4Distinct(hay, query) ==
    LET tokens == Tokens(query)
    IN  Cardinality({tokens[i] : i \in {j \in 1..Len(tokens) :
                        Len(tokens[j]) >= MinTokenLen /\ Includes(hay, tokens[j])}})

\* the second term, in quarters: 0.25 for each token of the loop that is at
\* least two characters long and found in hay
TokenTerm4(hay, query) ==
    LET tokens == Tokens(query)
    IN  Cardinality({i \in 1..Len(tokens) :
                        Len(tokens[i]) >= MinTokenLen /\ Includes(hay, tokens[i])})

\* scoreChunk(q, chunk), in quarters
ScoreChunk4(q, chunk) ==
    LET query == ToLowerCase(q)
        hay == Hay(chunk)
    IN  4 * PhraseTerm(hay, query) + TokenTerm4(hay, query)

-----------------------------------------------------------------------------
(* The search_xmtp_docs handler *)

PreviewLen == 400

\* .filter((x) => x.s > 0)
Matched(x) == x.s > 0

\* a slip: the sort left out
Unsorted(xs) == xs

\* Array.prototype.sort with (a, b) => b.s - a.s; the sort is stable, which an
\* insertion of each element after the ones that do not compare greater is
RECURSIVE SortByScore(_)
SortByScore(xs) ==
    IF Len(xs) <= 1 THEN xs
    ELSE LET front == SortByScore(SubSeq(xs, 1, Len(xs) - 1))
             x == xs[Len(xs)]
             k == Cardinality({i \in 1..Len(front) : front[i].s - x.s >= 0})
         IN  SubSeq(front, 1, k) \o <<x>> \o SubSeq(front, k + 1, Len(front))

\* s.slice(0, n) for n >= 0
Slice0(s, n) == SubSeq(s, 1, IF n < Len(s) THEN n ELSE Len(s))

\* .map(score).filter(...).sort(...).slice(0, limit)
Scored(cs, query, limit) ==
    Slice0(SortByScore(SelectSeq([i \in 1..Len(cs) |-> [c |-> cs[i], s |-> ScoreChunk4(query, cs[i])]],
                                 Matched)),
           limit)

Preview(text) == IF Len(text) > PreviewLen THEN Slice0(text, PreviewLen) \o <<Ellipsis>> ELSE text

SearchResults(cs, query, limit) ==
    LET scored == Scored(cs, query, limit)
    IN  [i \in 1..Len(scored) |->
            [id |-> scored[i].c.id, title |-> scored[i].c.title,
             score4 |-> scored[i].s, preview |-> Preview(scored[i].c.text)]]

-----------------------------------------------------------------------------
(* The get_xmtp_doc_chunk handler *)

\* new Map(chunks.map((c) => [c.id, c])): a later entry replaces an earlier one
\* of the same key
ByIdOf(cs) ==
    [i \in {cs[k].id : k \in 1..Len(cs)} |-> cs[SetMax({k \in 1..Len(cs) : cs[k].id = i})]]

NotFoundPrefix == <<"N", "o", " ", "c", "h", "u", "n", "k", " ", "f", "o", "u", "n", "d", " ",
                    "f", "o", "r", " ", "i", "d", "=">>

\* `# ${chunk.title}\n\n${chunk.text}`
Full(chunk) == <<"#", " ">> \o chunk.title \o <<LF, LF>> \o chunk.text

\* a slip: >= for >
ClipFromLimit(full, maxChars) ==
    IF Len(full) >= maxChars THEN Slice0(full, maxChars) \o <<Ellipsis>> ELSE full

\* full.length > maxChars ? full.slice(0, maxChars) + "…" : full
Clip(full, maxChars) ==
    IF Len(full) > maxChars THEN Slice0(full, maxChars) \o <<Ellipsis>> ELSE full

\* a slip: the requested id padded like a chunk id before the lookup
GetChunkTextPadded(index, id, maxChars) ==
    IF PadStart(id, IdWidth, "0") \notin DOMAIN index
    THEN NotFoundPrefix \o id
    ELSE Clip(Full(index[PadStart(id, IdWidth, "0")]), maxChars)

\* the text the handler returns for a Map `index`
GetChunkText(index, id, maxChars) ==
    IF id \notin DOMAIN index THEN NotFoundPrefix \o id ELSE Clip(Full(index[id]), maxChars)

-----------------------------------------------------------------------------
(* Tool inputs: the values the schemas SearchSchema and GetChunkSchema accept *)

MinLimit == 1
MaxLimit == 20
MinMaxChars == 200
MaxMaxChars == 20000

\* a document whose one chunk renders to MinMaxChars + 6 characters
Repeat(c, n) == [i \in 1..n |-> c]

LongDoc == Join(<<H1, Repeat("a", MinMaxChars)>>, <<LF>>)

Docs == EnumDocs \cup {ExampleDoc, CrLfDoc, LongDoc}

SearchQueries ==
    {<<"a", "b">>, <<"A", "B">>, <<"b">>, <<"i", "n", " ", "a", "b">>, <<"u", "n">>}

Limits == {MinLimit, MinLimit + 1, MaxLimit}

RequestedIds == {MakeId(0), MakeId(1), MakeId(2), <<"0">>, <<"0", "0", "0", "0", "0", "0">>}

MaxCharsSet == {MinMaxChars, MinMaxChars + 5, MinMaxChars + 6, MaxMaxChars}

\* Inputs of scoreChunk on its own
MaxQueryLen == 5
MaxTextLen == 3

SeqsUpTo(S, n) == UNION {[1..k -> S] : k \in 1..n}

SendTitle == <<"S", "e", "n", "d", " ", "M", "e", "s", "s", "a", "g", "e", "s">>
SendText ==
    <<"T", "o", " ", "s", "e", "n", "d", " ", "a", " ", "m", "e", "s", "s", "a", "g", "e", ",", " ", "c", "a", "l", "l", " ", "s", "e", "n", "d", ".">>
SendChunk == [id |-> MakeId(0), title |-> SendTitle, text |-> SendText]
QuerySend == <<"s", "e", "n", "d">>
QuerySendMessage == <<"s", "e", "n", "d", " ", "m", "e", "s", "s", "a", "g", "e">>

ScoreQueries ==
    SeqsUpTo({"a", " "}, MaxQueryLen)
        \cup {QuerySend, QuerySendMessage, <<"A">>, <<"A", "a">>, <<"a", LF, "a">>,
              <<"a", "b", TAB, "A", "B">>}

ScoreTexts == {x \in SeqsUpTo({"a", "b", " "}, MaxTextLen) : Trim(x) = x}

ScoreChunks ==
    {[id |-> MakeId(0), title |-> t, text |-> x] : t \in {<<"A">>, <<"a", "b">>}, x \in ScoreTexts}
        \cup {SendChunk}

SearchTool == "search_xmtp_docs"
GetChunkTool == "get_xmtp_doc_chunk"

NoRequest == [tool |-> "none"]
NoResponse == [kind |-> "none"]

-----------------------------------------------------------------------------
(* State *)

VARIABLES
    pc,            \* where main() is: "start", "chunking", "connecting", "serving",
                   \* "failed" (main's promise rejected), "exited"
    docSource,     \* "file" when XMTP_DOC_PATH is set, else "url"
    docsText,      \* the loaded text
    err,           \* the value main's promise rejected with
    lines,         \* chunkMarkdownish: text.split(/\r?\n/)
    pos,           \* chunkMarkdownish: the line the for loop is at
    currentTitle,
    currentLines,
    idx,
    chunks,
    emittedAt,     \* for each chunk, the value of pos when flush pushed it
    byId,
    tools,         \* the tools registered on the server
    request,       \* the last tool call delivered to a handler
    response,      \* the last result the transport wrote to stdout
    stderr,        \* what console.error wrote
    exitCode,      \* 0 while the process runs, else the argument of process.exit
    sQuery,        \* scoreChunk on its own: the query,
    sChunk,        \*   the chunk,
    sScore4        \*   and the score returned, in quarters (-1 before the call)

chunkerVars == <<lines, pos, currentTitle, currentLines, idx, chunks, emittedAt>>
serverVars == <<pc, docSource, docsText, err, byId, tools, request, response, stderr, exitCode>>
scoreVars == <<sQuery, sChunk, sScore4>>
vars == <<pc, docSource, docsText, err, lines, pos, currentTitle, currentLines, idx, chunks,
          emittedAt, byId, tools, request, response, stderr, exitCode, sQuery, sChunk, sScore4>>

NoChunk == [id |-> <<>>, title |-> <<>>, text |-> <<>>]

ServerInit ==
    /\ pc = "start"
    /\ docsText = <<>>
    /\ err = "none"
    /\ lines = <<>>
    /\ pos = 0
    /\ currentTitle = <<>>
    /\ currentLines = <<>>
    /\ idx = 0
    /\ chunks = <<>>
    /\ emittedAt = <<>>
    /\ byId = <<>>
    /\ tools = {}
    /\ request = NoRequest
    /\ response = NoResponse
    /\ stderr = <<>>
    /\ exitCode = 0

Init ==
    /\ ServerInit
    /\ docSource \in {"file", "url"}
    /\ sQuery = <<>>
    /\ sChunk = NoChunk
    /\ sScore4 = -1

-----------------------------------------------------------------------------
(* main: loadDocsText *)

\* chunkMarkdownish(docsText) up to its for loop
BeginChunking(text) ==
    /\ pc' = "chunking"
    /\ docsText' = text
    /\ lines' = SplitLines(text)
    /\ pos' = 1
    /\ currentTitle' = Intro
    /\ currentLines' = <<>>
    /\ idx' = 0
    /\ chunks' = <<>>
    /\ emittedAt' = <<>>
    /\ UNCHANGED <<docSource, err, byId, tools, request, response, stderr, exitCode>>
    /\ UNCHANGED scoreVars

\* loadDocsText throws: main's promise rejects with e
Reject(e) ==
    /\ pc' = "failed"
    /\ err' = e
    /\ UNCHANGED <<docSource, docsText, byId, tools, request, response, stderr, exitCode>>
    /\ UNCHANGED chunkerVars
    /\ UNCHANGED scoreVars

ReadFileOk ==
    /\ pc = "start"
    /\ docSource = "file"
    /\ \E text \in Docs : BeginChunking(text)

ReadFileFails ==
    /\ pc = "start"
    /\ docSource = "file"
    /\ Reject("readFile error")

FetchOk ==
    /\ pc = "start"
    /\ docSource = "url"
    /\ \E text \in Docs : BeginChunking(text)

FetchNotOk ==
    /\ pc = "start"
    /\ docSource = "url"
    /\ Reject("Failed to fetch docs")

FetchThrows ==
    /\ pc = "start"
    /\ docSource = "url"
    /\ Reject("fetch error")

-----------------------------------------------------------------------------
(* main: chunkMarkdownish, one line of the for loop at a time *)

ChunkerState ==
    [currentTitle |-> currentTitle, currentLines |-> currentLines, idx |-> idx,
     chunks |-> chunks, emittedAt |-> emittedAt]

ChunkHeadingLine ==
    /\ pc = "chunking"
    /\ pos <= Len(lines)
    /\ HeadingMatch(lines[pos]).matched
    /\ LET st == Flush(ChunkerState, pos)
       IN  /\ currentLines' = st.currentLines
           /\ idx' = st.idx
           /\ chunks' = st.chunks
           /\ emittedAt' = st.emittedAt
    /\ currentTitle' = HeadingMatch(lines[pos]).title
    /\ pos' = pos + 1
    /\ UNCHANGED <<lines>>
    /\ UNCHANGED serverVars
    /\ UNCHANGED scoreVars

ChunkBodyLine ==
    /\ pc = "chunking"
    /\ pos <= Len(lines)
    /\ ~HeadingMatch(lines[pos]).matched
    /\ currentLines' = Append(currentLines, lines[pos])
    /\ pos' = pos + 1
    /\ UNCHANGED <<lines, currentTitle, idx, chunks, emittedAt>>
    /\ UNCHANGED serverVars
    /\ UNCHANGED scoreVars

\* the flush after the loop, the Map and the two server.tool calls
FinishChunking ==
    /\ pc = "chunking"
    /\ pos = Len(lines) + 1
    /\ LET st == Flush(ChunkerState, pos)
       IN  /\ currentLines' = st.currentLines
           /\ idx' = st.idx
           /\ chunks' = st.chunks
           /\ emittedAt' = st.emittedAt
           /\ byId' = ByIdOf(st.chunks)
    /\ tools' = {SearchTool, GetChunkTool}
    /\ pc' = "connecting"
    /\ UNCHANGED <<lines, pos, currentTitle>>
    /\ UNCHANGED <<docSource, docsText, err, request, response, stderr, exitCode>>
    /\ UNCHANGED scoreVars

\* await server.connect(transport)
Connect ==
    /\ pc = "connecting"
    /\ pc' = "serving"
    /\ UNCHANGED <<docSource, docsText, err, byId, tools, request, response, stderr, exitCode>>
    /\ UNCHANGED chunkerVars
    /\ UNCHANGED scoreVars

\* a slip: the error logged with console.log, which writes to stdout
CatchLogsToStdout ==
    /\ pc = "failed"
    /\ response' = [kind |-> "text", text |-> err]
    /\ exitCode' = 1
    /\ pc' = "exited"
    /\ UNCHANGED <<docSource, docsText, err, byId, tools, request, stderr>>
    /\ UNCHANGED chunkerVars
    /\ UNCHANGED scoreVars

\* main().catch: console.error(err); process.exit(1)
CatchExit ==
    /\ pc = "failed"
    /\ stderr' = Append(stderr, err)
    /\ exitCode' = 1
    /\ pc' = "exited"
    /\ UNCHANGED <<docSource, docsText, err, byId, tools, request, response>>
    /\ UNCHANGED chunkerVars
    /\ UNCHANGED scoreVars

-----------------------------------------------------------------------------
(* The tool handlers *)

Search ==
    /\ pc = "serving"
    /\ SearchTool \in tools
    /\ \E query \in SearchQueries, limit \in Limits :
        /\ request' = [tool |-> SearchTool, query |-> query, limit |-> limit]
        /\ response' = [kind |-> "search", source |-> docSource, totalChunks |-> Len(chunks),
                        results |-> SearchResults(chunks, query, limit)]
    /\ UNCHANGED <<pc, docSource, docsText, err, byId, tools, stderr, exitCode>>
    /\ UNCHANGED chunkerVars
    /\ UNCHANGED scoreVars

GetChunk ==
    /\ pc = "serving"
    /\ GetChunkTool \in tools
    /\ \E id \in RequestedIds, maxChars \in MaxCharsSet :
        /\ request' = [tool |-> GetChunkTool, id |-> id, maxChars |-> maxChars]
        /\ response' = [kind |-> "text", text |-> GetChunkText(byId, id, maxChars)]
    /\ UNCHANGED <<pc, docSource, docsText, err, byId, tools, stderr, exitCode>>
    /\ UNCHANGED chunkerVars
    /\ UNCHANGED scoreVars

Next ==
    \/ ReadFileOk
    \/ ReadFileFails
    \/ FetchOk
    \/ FetchNotOk
    \/ FetchThrows
    \/ ChunkHeadingLine
    \/ ChunkBodyLine
    \/ FinishChunking
    \/ Connect
    \/ CatchExit
    \/ Search
    \/ GetChunk

Spec == Init /\ [][Next]_vars

\* the catch handler of a rejected promise is run
FairSpec == Spec /\ WF_vars(CatchExit)

-----------------------------------------------------------------------------
(* scoreChunk on its own, over a wider set of queries and chunks than the    *)
(* documents above produce                                                   *)

InitScore ==
    /\ ServerInit
    /\ docSource = "url"
    /\ sQuery \in ScoreQueries
    /\ sChunk \in ScoreChunks
    /\ sScore4 = -1

ScoreCall ==
    /\ sScore4 = -1
    /\ sScore4' = ScoreChunk4(sQuery, sChunk)
    /\ UNCHANGED <<sQuery, sChunk>>
    /\ UNCHANGED serverVars
    /\ UNCHANGED chunkerVars

NextScore == ScoreCall

SpecScore == InitScore /\ [][NextScore]_vars

-----------------------------------------------------------------------------
(* Properties of the chunker *)

IsDigit(c) == \E d \in 1..Len(Digits) : Digits[d] = c

DigitValue(c) == (CHOOSE d \in 1..Len(Digits) : Digits[d] = c) - 1

\* the number a string of decimal digits denotes
RECURSIVE ToNum(_)
ToNum(s) == IF Len(s) = 0 THEN 0 ELSE 10 * ToNum(SubSeq(s, 1, Len(s) - 1)) + DigitValue(s[Len(s)])

IsHeading(p) == HeadingMatch(lines[p]).matched

\* the last heading line before line p, 0 when there is none
HeadingBefore(p) ==
    LET hs == {h \in 1..(p - 1) : IsHeading(h)}
    IN  IF hs = {} THEN 0 ELSE SetMax(hs)

\* the first heading line after line h, Len(lines) + 1 when there is none
HeadingAfter(h) ==
    LET hs == {g \in (h + 1)..Len(lines) : IsHeading(g)}
    IN  IF hs = {} THEN Len(lines) + 1 ELSE SetMin(hs)

\* the heading line chunk k was accumulated under, 0 for the lines before the
\* first heading
HeadingOfChunk(k) == HeadingBefore(emittedAt[k])

ChunkingDone == pc \in {"connecting", "serving"}

\* C1: the ids of the chunks emitted so far are strings of five decimal digits,
\* the first is "00000", they are pairwise distinct and strictly increasing in
\* the order of emission, and every chunk's text is non-empty after trimming;
\* this holds after every line of the pass.
C1_IdsAndBodies ==
    /\ \A k \in 1..Len(chunks) :
        /\ Len(chunks[k].id) = 5
        /\ \A i \in 1..Len(chunks[k].id) : IsDigit(chunks[k].id[i])
        /\ Trim(chunks[k].text) # <<>>
        /\ k > 1 => ToNum(chunks[k - 1].id) < ToNum(chunks[k].id)
    /\ Len(chunks) >= 1 => chunks[1].id = <<"0", "0", "0", "0", "0">>
    /\ \A j, k \in 1..Len(chunks) : j # k => chunks[j].id # chunks[k].id

\* the pass is under way and has emitted two chunks
C1_Witness == pc = "chunking" /\ pos <= Len(lines) /\ Len(chunks) >= 2

\* the heading lines that are immediately followed by another heading line and
\* were passed between the emission of chunk k - 1 and that of chunk k
SkippedBefore(k) ==
    {h \in (IF k = 1 THEN 1 ELSE emittedAt[k - 1])..(emittedAt[k] - 2) :
        IsHeading(h) /\ IsHeading(h + 1)}

\* C2 as stated: a heading immediately followed by a heading leaves a gap in the
\* ids, the next chunk's id being more than one above the previous chunk's.
C2_IdGapAtSkippedHeading ==
    \A k \in 2..Len(chunks) :
        SkippedBefore(k) # {} => ToNum(chunks[k].id) > ToNum(chunks[k - 1].id) + 1

\* C2 as amended: a heading immediately followed by a heading emits no chunk and
\* uses no id: the flush at the second heading pushes nothing, and the k-th
\* chunk emitted has the id k - 1 whatever was skipped before it.
C2_NoIdForSkippedHeading ==
    /\ \A h \in 1..(pos - 2) :
        IsHeading(h) /\ IsHeading(h + 1) => \A k \in 1..Len(chunks) : emittedAt[k] # h + 1
    /\ \A k \in 1..Len(chunks) : ToNum(chunks[k].id) = k - 1
    /\ idx = Len(chunks)

\* a chunk was emitted, then a heading was skipped, then a chunk was emitted
C2_Witness == Len(chunks) >= 2 /\ SkippedBefore(2) # {}

\* C3: a chunk's title is the trimmed capture of the last heading line before its
\* body lines, "Intro" when there is none, "Untitled" when the capture is all
\* white space; a heading whose lines up to the next heading or the end are
\* empty or white space has no chunk; a document without headings has at most
\* one chunk, titled "Intro"; content, "# A", "## B", text has the two chunks
\* "Intro" and "B".
C3_Titles ==
    /\ \A k \in 1..Len(chunks) :
        LET h == HeadingOfChunk(k)
            captured == HeadingMatch(lines[h]).title
        IN  /\ chunks[k].text = Trim(Join(SubSeq(lines, h + 1, emittedAt[k] - 1), <<LF>>))
            /\ chunks[k].title =
                  IF h = 0 THEN Intro
                  ELSE IF \A i \in 1..Len(captured) : IsSpace(captured[i]) THEN Untitled
                  ELSE Trim(captured)
    /\ ChunkingDone =>
        /\ \A h \in 1..Len(lines) :
              (/\ IsHeading(h)
               /\ \A p \in (h + 1)..(HeadingAfter(h) - 1) :
                     \A i \in 1..Len(lines[p]) : IsSpace(lines[p][i]))
                  => \A k \in 1..Len(chunks) : HeadingOfChunk(k) # h
        /\ (\A p \in 1..Len(lines) : ~IsHeading(p))
              => Len(chunks) <= 1 /\ \A k \in 1..Len(chunks) : chunks[k].title = Intro
        /\ lines = ExampleLines
              => [k \in 1..Len(chunks) |-> chunks[k].title] = <<Intro, <<"B">>>>

\* the document content, "# A", "## B", text has been chunked
C3_Witness == ChunkingDone /\ lines = ExampleLines /\ Len(chunks) = 2

-----------------------------------------------------------------------------
(* Properties of scoreChunk *)

Scored4 == sScore4 # -1

\* lowercase(c.title + "\n" + c.text) and lowercase(q) of the call
ClaimHay == [i \in 1..(Len(sChunk.title) + 1 + Len(sChunk.text)) |->
                LowerChar((sChunk.title \o <<LF>> \o sChunk.text)[i])]
ClaimQuery == [i \in 1..Len(sQuery) |-> LowerChar(sQuery[i])]

\* the places where t occurs in s
Occurrences(s, t) == {p \in 1..(Len(s) - Len(t) + 1) : SubSeq(s, p, p + Len(t) - 1) = t}

\* the most occurrences of t in s that can be taken without two overlapping
NonOverlapping(s, t) ==
    LET sets == {S \in SUBSET Occurrences(s, t) :
                    \A p, r \in S : p < r => p + Len(t) <= r}
    IN  SetMax({Cardinality(S) : S \in sets})

\* the places of q where a token starts, and the token that starts at place i
TokenStarts(q) == {i \in 1..Len(q) : ~IsSpace(q[i]) /\ (i = 1 \/ IsSpace(q[i - 1]))}
TokenAt(q, i) ==
    SubSeq(q, i, SetMin({j \in i..Len(q) : j = Len(q) \/ IsSpace(q[j + 1])}))

\* the tokens of q, by place, that are at least two long and occur in hay
PresentTokens(q, hay) ==
    {i \in TokenStarts(q) : Len(TokenAt(q, i)) >= 2 /\ Occurrences(hay, TokenAt(q, i)) # {}}

IsSendCall(q) == sQuery = q /\ sChunk = SendChunk /\ Scored4

\* C5 as stated: "send" occurs twice in the Send Messages chunk, phrase term 2,
\* token term 0.25, score 2.25.
C5_SendScores225 ==
    IsSendCall(QuerySend) =>
        /\ NonOverlapping(ClaimHay, ClaimQuery) = 2
        /\ sScore4 = 9

\* C5 as amended: "send" occurs three times in the Send Messages chunk, once in
\* the title and twice in the text, phrase term 3, token term 0.25, score 3.25.
C5_SendScores325 ==
    IsSendCall(QuerySend) =>
        /\ NonOverlapping(ToLowerCase(SendTitle), ClaimQuery) = 1
        /\ NonOverlapping(ToLowerCase(SendText), ClaimQuery) = 2
        /\ NonOverlapping(ClaimHay, ClaimQuery) = 3
        /\ Cardinality(PresentTokens(ClaimQuery, ClaimHay)) = 1
        /\ sScore4 = 13

C5_Witness == IsSendCall(QuerySend) /\ sScore4 > 0

\* C6 as stated: "send message" occurs nowhere in the Send Messages chunk, both
\* tokens are present, score 0.25.
C6_SendMessageScores025 ==
    IsSendCall(QuerySendMessage) =>
        /\ NonOverlapping(ClaimHay, ClaimQuery) = 0
        /\ Cardinality(PresentTokens(ClaimQuery, ClaimHay)) = 2
        /\ sScore4 = 1

\* C6 as amended: "send message" occurs once in the Send Messages chunk, in the
\* title, both tokens are present, score 1 + 0.25 + 0.25 = 1.5.
C6_SendMessageScores150 ==
    IsSendCall(QuerySendMessage) =>
        /\ NonOverlapping(ToLowerCase(SendTitle), ClaimQuery) = 1
        /\ NonOverlapping(ToLowerCase(SendText), ClaimQuery) = 0
        /\ NonOverlapping(ClaimHay, ClaimQuery) = 1
        /\ Cardinality(PresentTokens(ClaimQuery, ClaimHay)) = 2
        /\ sScore4 = 6

C6_Witness == IsSendCall(QuerySendMessage) /\ sScore4 > 0

-----------------------------------------------------------------------------
(* Properties of the handlers *)

IsSearch == request.tool = SearchTool
IsGetChunk == request.tool = GetChunkTool

\* the chunks that match the query of the request, by place in the document
Matching == {i \in 1..Len(chunks) : ScoreChunk4(request.query, chunks[i]) > 0}

\* the place in the document of the chunk a result is of
PlaceOf(result) == CHOOSE i \in 1..Len(chunks) : chunks[i].id = result.id

\* chunk i ranks before chunk j: a higher score, or the same score and earlier
\* in the document
RanksBefore(i, j) ==
    LET si == ScoreChunk4(request.query, chunks[i])
        sj == ScoreChunk4(request.query, chunks[j])
    IN  si > sj \/ (si = sj /\ i < j)

\* C7: the results of a search are the first min(limit, m) of the m chunks with a
\* score > 0, by score descending, chunks of equal score in document order: no
\* more than limit, none with a score <= 0, none left out that ranks before one
\* returned.
C7_SearchResults ==
    IsSearch =>
        LET results == response.results
            m == Cardinality(Matching)
        IN  /\ Len(results) = (IF request.limit < m THEN request.limit ELSE m)
            /\ Len(results) <= request.limit
            /\ \A j \in 1..Len(results) :
                /\ \E i \in 1..Len(chunks) : chunks[i].id = results[j].id
                /\ PlaceOf(results[j]) \in Matching
                /\ results[j].score4 > 0
                /\ results[j].score4 = ScoreChunk4(request.query, chunks[PlaceOf(results[j])])
            /\ \A j, k \in 1..Len(results) :
                j < k => RanksBefore(PlaceOf(results[j]), PlaceOf(results[k]))
            /\ \A i \in Matching :
                (\A j \in 1..Len(results) : PlaceOf(results[j]) # i)
                    => \A j \in 1..Len(results) : RanksBefore(PlaceOf(results[j]), i)

\* a search cut by its limit whose first result comes later in the document than
\* its second
C7_Witness ==
    /\ IsSearch
    /\ request.limit < Cardinality(Matching)
    /\ Len(response.results) >= 2
    /\ PlaceOf(response.results[1]) > PlaceOf(response.results[2])

ChunkIds == {chunks[k].id : k \in 1..Len(chunks)}

IsNotFoundCall == IsGetChunk /\ request.id # <<>> /\ request.id \notin ChunkIds

\* C8: a fetch of a non-empty id that is the id of no chunk returns "No chunk
\* found for id=" and the id as a normal result, raises no error, leaves the
\* index as it is and the server serving.
C8_NotFound ==
    /\ [](IsNotFoundCall =>
            /\ response = [kind |-> "text", text |-> NotFoundPrefix \o request.id]
            /\ pc = "serving"
            /\ err = "none"
            /\ stderr = <<>>
            /\ exitCode = 0)
    /\ [][IsNotFoundCall =>
            /\ chunks' = chunks
            /\ byId' = byId
            /\ tools' = tools
            /\ pc' = "serving"]_vars

\* the id "0" was asked of an index that holds "00000"
C8_Witness ==
    /\ IsNotFoundCall
    /\ request.id = <<"0">>
    /\ MakeId(0) \in DOMAIN byId
    /\ response.text = NotFoundPrefix \o <<"0">>

\* the chunk of the id requested, found in the list of chunks
RequestedChunk == chunks[CHOOSE k \in 1..Len(chunks) : chunks[k].id = request.id]

RenderedFull == <<"#", " ">> \o RequestedChunk.title \o <<LF, LF>> \o RequestedChunk.text

\* C9: a fetch of a chunk returns "# " + title + "\n\n" + text unmodified when
\* that is no longer than maxChars, else its first maxChars characters and one
\* ellipsis, maxChars + 1 characters.
C9_Clipped ==
    (IsGetChunk /\ request.id \in ChunkIds) =>
        /\ request.maxChars \in MinMaxChars..MaxMaxChars
        /\ Len(RenderedFull) <= request.maxChars => response.text = RenderedFull
        /\ Len(RenderedFull) > request.maxChars =>
            /\ Len(response.text) = request.maxChars + 1
            /\ SubSeq(response.text, 1, request.maxChars) = SubSeq(RenderedFull, 1, request.maxChars)
            /\ response.text[request.maxChars + 1] = Ellipsis
        /\ Len(response.text) <= request.maxChars + 1

\* a chunk one character longer than maxChars was fetched
C9_Witness ==
    /\ IsGetChunk
    /\ request.id \in ChunkIds
    /\ Len(RenderedFull) = request.maxChars + 1
    /\ Len(response.text) = request.maxChars + 1

LoadFailed == pc \in {"failed", "exited"}

\* C10: the document is loaded and chunked once; a response is produced only
\* after the load and the index are complete; no call changes the index; when
\* the load fails no tool is registered, no query is served, the failure goes to
\* stderr and not to stdout, and the process exits with a non-zero status.
C10_Startup ==
    /\ [](response # NoResponse =>
            /\ pc = "serving"
            /\ lines = SplitLines(docsText)
            /\ pos = Len(lines) + 1
            /\ DOMAIN byId = ChunkIds
            /\ \A k \in 1..Len(chunks) : byId[chunks[k].id] = chunks[k]
            /\ tools = {SearchTool, GetChunkTool})
    /\ [](LoadFailed =>
            /\ tools = {}
            /\ request = NoRequest
            /\ response = NoResponse
            /\ chunks = <<>>)
    /\ [](pc = "exited" => exitCode # 0 /\ stderr = <<err>>)
    /\ [](pc # "exited" => exitCode = 0 /\ stderr = <<>>)
    /\ [][pc # "start" => docsText' = docsText /\ lines' = lines /\ pc' # "start"]_vars
    /\ [][pc \notin {"start", "chunking"} =>
            /\ pc' # "chunking"
            /\ UNCHANGED <<chunks, byId, currentTitle, currentLines, idx, pos>>]_vars
    /\ (pc = "failed") ~> (pc = "exited" /\ exitCode # 0)

\* the load failed and the process has exited
C10_Witness == pc = "exited" /\ exitCode = 1 /\ err # "none" /\ stderr = <<err>>

====
